---- MODULE Spec2Model ----
(***************************************************************************)
(* Model of sharepoint_api.py: the SharePointClient class and the script   *)
(* that uses it.  The remote drive is a finite tree of items below the     *)
(* starting folder; the local filesystem is a set of directories and a map *)
(* from file paths to contents.  The recursive download is unfolded into   *)
(* an explicit call stack, one step per filesystem or network effect.      *)
(*                                                                         *)
(* The drive answers the same way throughout a behaviour: the tree, the    *)
(* order of siblings, the status of each file's content request and the    *)
(* folders whose children response is an error object without 'value' are  *)
(* chosen in Init.  A body that response.json() cannot decode may come for *)
(* any request.  The program is single-threaded, so the with block of      *)
(* download_file (open, write, close) is one step.  Item names are unique  *)
(* (10 + id) and every item is a folder or a file.                         *)
(***************************************************************************)
EXTENDS Integers, Sequences, FiniteSets, TLC

\* Largest number of items below the starting folder.
MaxNodes == 3
\* Largest number of calls of download_folder_contents in one behaviour.
MaxRuns == 2

VARIABLES
    tree,         \* remote items below folder_id: 1..n -> [parent, facet]
    rev,          \* the order in which the provider lists siblings
    noValue,      \* folders whose children response is JSON without 'value'
    status,       \* HTTP status of each file's content request
    pre,          \* the local filesystem before the script ran
    dirs,         \* local directories (paths)
    files,        \* local files: path -> content
    pc,           \* position of the script
    access_token, \* client.access_token
    site_id,      \* script variable site_id
    drive_info,   \* script variable drive_info
    contents,     \* script variable contents (result of list_folder_contents)
    stack,        \* call stack of download_folder_contents
    run,          \* number of download_folder_contents calls started
    sent,         \* requests issued: [to, token]
    fetched,      \* folders whose children the current mirror call requested
    attempted,    \* files whose content the current mirror call requested
    failed,       \* "Failed to download" lines printed by the current call
    written,      \* "File downloaded" lines printed by the current call
    exc,          \* the uncaught exception that ended the script, if any
    prevDirs,     \* dirs when the previous mirror call returned
    prevFiles     \* files when the previous mirror call returned

vars == <<tree, rev, noValue, status, pre, dirs, files, pc, access_token,
          site_id, drive_info, contents, stack, run, sent, fetched,
          attempted, failed, written, exc, prevDirs, prevFiles>>

remoteVars == <<tree, rev, noValue, status, pre>>

-----------------------------------------------------------------------------
(* The remote drive *)

N == Len(tree)
Ids == 1..N
Folders == {i \in Ids : tree[i].facet = "folder"}
Files == {i \in Ids : tree[i].facet = "file"}

\* folder_id of the script: the folder the walk and the mirror start from.
folder_id == 0

\* The JSON object the children listing returns for item i.
Item(i) ==
    [id |-> i, name |-> 10 + i, facet |-> tree[i].facet,
     mimeType |-> IF tree[i].facet = "folder" THEN "None"
                  ELSE IF i % 2 = 1 THEN "application/pdf" ELSE "text/plain"]

RECURSIVE Ascending(_)
Ascending(S) ==
    IF S = {} THEN <<>>
    ELSE LET m == CHOOSE x \in S : \A y \in S : x <= y
         IN  <<Item(m)>> \o Ascending(S \ {m})

RECURSIVE Descending(_)
Descending(S) ==
    IF S = {} THEN <<>>
    ELSE LET m == CHOOSE x \in S : \A y \in S : x >= y
         IN  <<Item(m)>> \o Descending(S \ {m})

\* The children of folder f in the order the provider returns them.
Listing(f) ==
    LET kids == {i \in Ids : tree[i].parent = f}
    IN  IF rev THEN Descending(kids) ELSE Ascending(kids)

\* The body of GET .../items/{f}/children.
ChildrenResponse(f) ==
    [hasValue |-> f \notin noValue,
     value    |-> IF f \in noValue THEN <<>> ELSE Listing(f)]

\* The bytes of remote file i.
RemoteContent(i) == 100 + i

TreeOK(t) ==
    \A i \in 1..Len(t) :
        /\ t[i].parent < i
        /\ t[i].parent # 0 => t[t[i].parent].facet = "folder"

Trees ==
    UNION {{t \in [1..n -> [parent : 0..(n - 1), facet : {"folder", "file"}]] :
              TreeOK(t)} : n \in 0..MaxNodes}

-----------------------------------------------------------------------------
(* The local filesystem *)

local_save_path == <<0>>

os_path_join(path, name) == Append(path, name)

os_path_exists(path) == path \in dirs \/ path \in DOMAIN files

Prefixes(path) == {SubSeq(path, 1, k) : k \in 1..Len(path)}

\* os.makedirs: the leaf and every missing intermediate directory.
os_makedirs(d, path) == d \cup Prefixes(path)

\* os.makedirs raises when the leaf exists (exist_ok is not passed).
MakedirsRaises(path) == os_path_exists(path)

Dirname(path) == SubSeq(path, 1, Len(path) - 1)

WriteFile(f, path, content) ==
    [p \in DOMAIN f \cup {path} |-> IF p = path THEN content ELSE f[p]]

\* The local path that corresponds to remote item i.
RECURSIVE PathOf(_)
PathOf(i) ==
    IF i = 0 THEN local_save_path
    ELSE Append(PathOf(tree[i].parent), 10 + i)

\* Content of a local file that an earlier, unrelated download left behind.
StaleContent == 0 - 1
\* Content of a file that was opened for writing and not written.
Truncated == 0 - 2

InitialDirs ==
    CASE pre = "absent" -> {}
      [] pre = "empty"  -> {local_save_path}
      [] pre = "stale"  -> {local_save_path} \cup {PathOf(i) : i \in Folders}

InitialFiles ==
    IF pre = "stale"
    THEN [p \in {PathOf(i) : i \in Files} |-> StaleContent]
    ELSE [p \in {} |-> StaleContent]

-----------------------------------------------------------------------------
(* list_folder_contents *)

FolderEntry(item) == [name |-> item.name, type |-> "Folder", mimeType |-> "None"]

\* A file entry that loses the file's content type.
FileEntry_nomime(item) == [name |-> item.name, type |-> "File", mimeType |-> "None"]

FileEntry(item) == [name |-> item.name, type |-> "File", mimeType |-> item.mimeType]

\* A walk that appends the folder's entry after the entries of its subtree.
FolderBranch_postorder(items_list, entry, sub) == items_list \o sub \o <<entry>>

\* items_list after the folder's entry was appended to it and the result of
\* the recursive call extended it.
FolderBranch(items_list, entry, sub) == items_list \o <<entry>> \o sub

\* The items the for loop of list_folder_contents iterates over.
WalkLoopItems(folder_contents) ==
    IF folder_contents.hasValue THEN folder_contents.value ELSE <<>>

RECURSIVE list_folder_contents(_)
RECURSIVE WalkLoop(_, _)
list_folder_contents(f) == WalkLoop(WalkLoopItems(ChildrenResponse(f)), <<>>)

WalkLoop(items, items_list) ==
    IF items = <<>> THEN items_list
    ELSE LET item == Head(items)
         IN  IF item.facet = "folder"
             THEN WalkLoop(Tail(items),
                           FolderBranch(items_list, FolderEntry(item),
                                        list_folder_contents(item.id)))
             ELSE WalkLoop(Tail(items), Append(items_list, FileEntry(item)))

-----------------------------------------------------------------------------
(* download_file and download_folder_contents *)

\* The items the for loop of download_folder_contents iterates over.
MirrorLoopItems(folder_contents) ==
    IF folder_contents.hasValue THEN folder_contents.value ELSE <<>>

\* A call of download_folder_contents that has received its children listing.
Frame(f, local_folder_path, folder_contents) ==
    [folder |-> f, path |-> local_folder_path,
     items |-> MirrorLoopItems(folder_contents), pending |-> FALSE]

\* A subfolder path joined to the root of the mirror instead of the parent.
NewPath_flat(local_folder_path, item) == os_path_join(local_save_path, item.name)

NewPath(local_folder_path, item) == os_path_join(local_folder_path, item.name)

\* makedirs called without the existence test.
NeedsCreate_always(new_path) == TRUE

\* The existence test inverted.
NeedsCreate_inverted(new_path) == os_path_exists(new_path)

NeedsCreate(new_path) == ~os_path_exists(new_path)

\* The statuses for which download_file opens the local file.
OpensFile(st) == st = 200

\* A download_file that opens the file before it looks at the status.
FilesAfterDownload_openfirst(f, st, full_path, content) ==
    IF st = 200 THEN WriteFile(f, full_path, content)
    ELSE WriteFile(f, full_path, Truncated)

\* The local files after download_file received status st for full_path.
FilesAfterDownload(f, st, full_path, content) ==
    IF st = 200 THEN WriteFile(f, full_path, content) ELSE f

NoExc == [type |-> "none", path |-> <<>>]

\* An exception nothing catches ends the script.
Raise(type, path) ==
    /\ pc' = "crashed"
    /\ exc' = [type |-> type, path |-> path]

Top == stack[Len(stack)]

SetTop(fr) == [stack EXCEPT ![Len(stack)] = fr]

\* What a response body can be: a JSON object, or something response.json()
\* cannot decode (it raises).
Bodies == {"json", "garbage"}

-----------------------------------------------------------------------------
(* The script *)

Init ==
    /\ tree \in Trees
    /\ rev \in BOOLEAN
    /\ noValue \in SUBSET ({folder_id} \cup Folders)
    /\ status \in [Files -> {200, 404}]
    /\ pre \in {"absent", "empty", "stale"}
    /\ dirs = InitialDirs
    /\ files = InitialFiles
    /\ pc = "start"
    /\ access_token = "unset"
    /\ site_id = "unset"
    /\ drive_info = <<>>
    /\ contents = <<>>
    /\ stack = <<>>
    /\ run = 0
    /\ sent = {}
    /\ fetched = {}
    /\ attempted = {}
    /\ failed = {}
    /\ written = {}
    /\ exc = NoExc
    /\ prevDirs = InitialDirs
    /\ prevFiles = InitialFiles

\* client = SharePointClient(...): __init__ stores what get_access_token returns,
\* which is None when the response has no access_token.
Construct ==
    /\ pc = "start"
    /\ \E body \in Bodies, token \in {"tok", "None"} :
        IF body = "garbage"
        THEN Raise("JSONDecodeError", <<>>) /\ UNCHANGED access_token
        ELSE access_token' = token /\ pc' = "site" /\ exc' = exc
    /\ UNCHANGED <<remoteVars, dirs, files, site_id, drive_info, contents, stack,
                   run, sent, fetched, attempted, failed, written,
                   prevDirs, prevFiles>>

\* site_id = client.get_site_id(site_url)
GetSiteId ==
    /\ pc = "site"
    /\ sent' = sent \cup {[to |-> "site", token |-> access_token]}
    /\ \E body \in Bodies, found \in BOOLEAN :
        /\ access_token = "None" => ~found
        /\ IF body = "garbage"
           THEN Raise("JSONDecodeError", <<>>) /\ UNCHANGED site_id
           ELSE /\ site_id' = IF found THEN "site" ELSE "None"
                /\ pc' = "drive"
                /\ exc' = exc
    /\ UNCHANGED <<remoteVars, dirs, files, access_token, drive_info, contents,
                   stack, run, fetched, attempted, failed, written,
                   prevDirs, prevFiles>>

\* drive_info = client.get_drive_id(site_id); drive_id = drive_info[0][0]
GetDriveId ==
    /\ pc = "drive"
    /\ sent' = sent \cup {[to |-> "drives", token |-> access_token]}
    /\ \E body \in Bodies, drives \in {<<>>, <<"drive">>} :
        /\ (access_token = "None" \/ site_id = "None") => drives = <<>>
        /\ IF body = "garbage"
           THEN Raise("JSONDecodeError", <<>>) /\ UNCHANGED drive_info
           ELSE /\ drive_info' = drives
                /\ IF drives = <<>>
                   THEN Raise("IndexError", <<>>)
                   ELSE pc' = "root" /\ exc' = exc
    /\ UNCHANGED <<remoteVars, dirs, files, access_token, site_id, contents,
                   stack, run, fetched, attempted, failed, written,
                   prevDirs, prevFiles>>

\* folder_content = client.get_folder_content(...); folder_id = folder_content[0][0]
GetFolderContent ==
    /\ pc = "root"
    /\ sent' = sent \cup {[to |-> "root", token |-> access_token]}
    /\ \E body \in Bodies, rootdir \in {<<>>, <<folder_id>>} :
        IF body = "garbage"
        THEN Raise("JSONDecodeError", <<>>)
        ELSE IF rootdir = <<>>
             THEN Raise("IndexError", <<>>)
             ELSE pc' = "walk" /\ exc' = exc
    /\ UNCHANGED <<remoteVars, dirs, files, access_token, site_id, drive_info,
                   contents, stack, run, fetched, attempted, failed, written,
                   prevDirs, prevFiles>>

\* contents = client.list_folder_contents(site_id, drive_id, folder_id)
ListFolderContents ==
    /\ pc = "walk"
    /\ sent' = sent \cup {[to |-> "children", token |-> access_token]}
    /\ \E body \in Bodies :
        IF body = "garbage"
        THEN Raise("JSONDecodeError", <<>>) /\ UNCHANGED contents
        ELSE /\ contents' = list_folder_contents(folder_id)
             /\ pc' = "mirror"
             /\ exc' = exc
    /\ UNCHANGED <<remoteVars, dirs, files, access_token, site_id, drive_info,
                   stack, run, fetched, attempted, failed, written,
                   prevDirs, prevFiles>>

\* client.download_folder_contents(site_id, drive_id, folder_id, local_save_path):
\* the outermost call requests the children of folder_id.
CallMirror ==
    /\ pc = "mirror" \/ (pc = "done" /\ run < MaxRuns)
    /\ run' = run + 1
    /\ prevDirs' = dirs
    /\ prevFiles' = files
    /\ sent' = sent \cup {[to |-> "children", token |-> access_token]}
    /\ fetched' = {folder_id}
    /\ attempted' = {}
    /\ failed' = {}
    /\ written' = {}
    /\ \E body \in Bodies :
        IF body = "garbage"
        THEN Raise("JSONDecodeError", local_save_path) /\ stack' = <<>>
        ELSE /\ stack' = <<Frame(folder_id, local_save_path,
                                 ChildrenResponse(folder_id))>>
             /\ pc' = "mirroring"
             /\ exc' = exc
    /\ UNCHANGED <<remoteVars, dirs, files, access_token, site_id, drive_info,
                   contents>>

\* The folder branch up to the recursive call: new_path is made if it is absent.
MakeDirs ==
    /\ pc = "mirroring"
    /\ Top.items # <<>>
    /\ Head(Top.items).facet = "folder"
    /\ ~Top.pending
    /\ LET new_path == NewPath(Top.path, Head(Top.items))
       IN  IF NeedsCreate(new_path)
           THEN IF MakedirsRaises(new_path)
                THEN /\ Raise("FileExistsError", new_path)
                     /\ UNCHANGED <<dirs, stack>>
                ELSE /\ dirs' = os_makedirs(dirs, new_path)
                     /\ stack' = SetTop([Top EXCEPT !.pending = TRUE])
                     /\ UNCHANGED <<pc, exc>>
           ELSE /\ stack' = SetTop([Top EXCEPT !.pending = TRUE])
                /\ UNCHANGED <<dirs, pc, exc>>
    /\ UNCHANGED <<remoteVars, files, access_token, site_id, drive_info, contents,
                   run, sent, fetched, attempted, failed, written,
                   prevDirs, prevFiles>>

\* The recursive call: the children of the subfolder are requested.
Descend ==
    /\ pc = "mirroring"
    /\ Top.pending
    /\ sent' = sent \cup {[to |-> "children", token |-> access_token]}
    /\ LET item == Head(Top.items)
           new_path == NewPath(Top.path, item)
       IN  /\ fetched' = fetched \cup {item.id}
           /\ \E body \in Bodies :
                IF body = "garbage"
                THEN Raise("JSONDecodeError", new_path) /\ UNCHANGED stack
                ELSE /\ stack' =
                          Append(SetTop([Top EXCEPT !.pending = FALSE,
                                                    !.items = Tail(@)]),
                                 Frame(item.id, new_path,
                                       ChildrenResponse(item.id)))
                     /\ UNCHANGED <<pc, exc>>
    /\ UNCHANGED <<remoteVars, dirs, files, access_token, site_id, drive_info,
                   contents, run, attempted, failed, written,
                   prevDirs, prevFiles>>

\* The file branch: download_file(file_download_url, local_folder_path, file_name).
DownloadFile ==
    /\ pc = "mirroring"
    /\ Top.items # <<>>
    /\ Head(Top.items).facet = "file"
    /\ sent' = sent \cup {[to |-> "content", token |-> access_token]}
    /\ LET item == Head(Top.items)
           st == status[item.id]
           full_path == os_path_join(Top.path, item.name)
       IN  /\ attempted' = attempted \cup {item.id}
           /\ IF OpensFile(st) /\ Dirname(full_path) \notin dirs
              THEN /\ Raise("FileNotFoundError", Top.path)
                   /\ UNCHANGED <<files, failed, written, stack>>
              ELSE /\ files' = FilesAfterDownload(files, st, full_path,
                                                  RemoteContent(item.id))
                   /\ written' = IF st = 200 THEN written \cup {full_path}
                                 ELSE written
                   /\ failed' = IF st = 200 THEN failed
                                ELSE failed \cup {item.name}
                   /\ stack' = SetTop([Top EXCEPT !.items = Tail(@)])
                   /\ UNCHANGED <<pc, exc>>
    /\ UNCHANGED <<remoteVars, dirs, access_token, site_id, drive_info, contents,
                   run, fetched, prevDirs, prevFiles>>

\* The for loop of the innermost call is exhausted: the call returns.
Return ==
    /\ pc = "mirroring"
    /\ Top.items = <<>>
    /\ stack' = SubSeq(stack, 1, Len(stack) - 1)
    /\ pc' = IF Len(stack) = 1 THEN "done" ELSE pc
    /\ UNCHANGED <<remoteVars, dirs, files, access_token, site_id, drive_info,
                   contents, run, sent, fetched, attempted, failed, written, exc,
                   prevDirs, prevFiles>>

Next ==
    \/ Construct
    \/ GetSiteId
    \/ GetDriveId
    \/ GetFolderContent
    \/ ListFolderContents
    \/ CallMirror
    \/ MakeDirs
    \/ Descend
    \/ DownloadFile
    \/ Return

Spec == Init /\ [][Next]_vars

-----------------------------------------------------------------------------
(* Vocabulary of the properties *)

\* Item j lies in the subtree of folder i.
RECURSIVE IsBelow(_, _)
IsBelow(j, i) ==
    /\ j # 0
    /\ \/ tree[j].parent = i
       \/ IsBelow(tree[j].parent, i)

\* Every folder on the way from folder_id to item i answered with its children.
RECURSIVE Visible(_)
Visible(i) ==
    /\ tree[i].parent \notin noValue
    /\ tree[i].parent = 0 \/ Visible(tree[i].parent)

\* list_folder_contents has just returned: contents holds its result.
Walked == pc = "mirror"

\* Every children listing carried its children: the remote tree is what the
\* provider shows.
WellFormed == noValue = {}

Pos(i) == {k \in 1..Len(contents) : contents[k].name = 10 + i}

\* The place of item i among its siblings, in the order of the listing.
SibIdx(i) ==
    LET l == Listing(tree[i].parent)
    IN  CHOOSE k \in 1..Len(l) : l[k].id = i

RECURSIVE IdxPath(_)
IdxPath(i) ==
    IF i = 0 THEN <<>> ELSE Append(IdxPath(tree[i].parent), SibIdx(i))

\* p comes before q in pre-order: p is a proper prefix of q, or p turns to an
\* earlier sibling where the two first differ.
Before(p, q) ==
    \/ Len(p) < Len(q) /\ SubSeq(q, 1, Len(p)) = p
    \/ \E k \in 1..Len(p) :
        /\ k <= Len(q)
        /\ SubSeq(p, 1, k - 1) = SubSeq(q, 1, k - 1)
        /\ p[k] < q[k]

\* The 1-based place of item i in the pre-order traversal of the tree.
Rank(i) == 1 + Cardinality({j \in Ids : Before(IdxPath(j), IdxPath(i))})

ExpectedEntry(i) ==
    IF tree[i].facet = "folder"
    THEN [name |-> 10 + i, type |-> "Folder", mimeType |-> "None"]
    ELSE [name |-> 10 + i, type |-> "File",
          mimeType |-> IF i % 2 = 1 THEN "application/pdf" ELSE "text/plain"]

\* The outermost download_folder_contents call has returned.
MirrorDone == pc = "done"

\* The download of file i succeeded and its content is in place.
Fetched(i) ==
    /\ i \in attempted
    /\ status[i] = 200
    /\ PathOf(i) \in written
    /\ PathOf(i) \in DOMAIN files
    /\ files[PathOf(i)] = RemoteContent(i)
    /\ (10 + i) \notin failed

\* The download of file i failed and the failure was printed.
Skipped(i) ==
    /\ i \in attempted
    /\ status[i] # 200
    /\ (10 + i) \in failed
    /\ PathOf(i) \notin written

\* The local directories below local_save_path.
SubDirs(d) == d \ {local_save_path}

-----------------------------------------------------------------------------
(* Properties *)

\* C1: on a well-formed remote tree with N folders and files below folder_id,
\* list_folder_contents returns exactly N entries, every item appears exactly
\* once, and every Folder entry comes before all entries of its subtree.
C1_WalkVisitsEachOnce ==
    (Walked /\ WellFormed) =>
        /\ Len(contents) = N
        /\ \A i \in Ids : Cardinality(Pos(i)) = 1
        /\ \A i \in Folders : \A j \in Ids :
             IsBelow(j, i) => \A k \in Pos(i), l \in Pos(j) : k < l

C1_Witness ==
    /\ Walked /\ WellFormed
    /\ N = 3
    /\ tree[1].facet = "folder" /\ tree[2].parent = 1 /\ tree[2].facet = "folder"
    /\ tree[3].parent = 2
    /\ Len(contents) = 3

\* C2: the sequence list_folder_contents returns is the pre-order depth-first
\* traversal with siblings in listing order: the entry at each item's pre-order
\* rank is that item's entry (Folder with no content type, File with its own
\* mimeType), and a folder's subtree follows its entry contiguously.
C2_WalkIsPreOrder ==
    (Walked /\ WellFormed) =>
        /\ Len(contents) = N
        /\ \A i \in Ids : contents[Rank(i)] = ExpectedEntry(i)
        /\ \A i \in Folders :
             LET below == {j \in Ids : IsBelow(j, i)}
             IN  {Rank(j) : j \in below}
                   = (Rank(i) + 1)..(Rank(i) + Cardinality(below))

\* root [Reports{q1.pdf}, readme.txt] yields Reports, q1.pdf, readme.txt.
C2_Witness ==
    /\ Walked /\ WellFormed /\ ~rev
    /\ N = 3
    /\ tree[1] = [parent |-> 0, facet |-> "folder"]
    /\ tree[2] = [parent |-> 0, facet |-> "file"]
    /\ tree[3] = [parent |-> 1, facet |-> "file"]
    /\ contents = <<[name |-> 11, type |-> "Folder", mimeType |-> "None"],
                    [name |-> 13, type |-> "File", mimeType |-> "application/pdf"],
                    [name |-> 12, type |-> "File", mimeType |-> "text/plain"]>>

C4_Idempotent ==
    /\ (run >= 2 /\ MirrorDone) => (dirs = prevDirs /\ files = prevFiles)
    /\ exc.type \notin {"FileExistsError", "IsADirectoryError"}
    /\ (run >= 2 /\ pc = "crashed") => exc.type = "JSONDecodeError"

C4_Witness ==
    /\ run = 2 /\ MirrorDone
    /\ pre = "absent"
    /\ \E f \in Folders, i \in Files :
        /\ tree[i].parent = f
        /\ PathOf(i) \in written
        /\ files[PathOf(i)] = RemoteContent(i)

\* C5 as stated: once a content download of the mirror has returned a
\* non-success status, the mirror is not aborted: it goes on and completes.
C5_Stated ==
    (run >= 1 /\ failed # {}) => pc \in {"mirroring", "done"}

\* C6 as stated: when the identity response lacks access_token the run stops
\* in an error state, and no request is ever sent with an absent token.
C6_Stated ==
    /\ access_token = "None" => pc = "crashed"
    /\ \A r \in sent : r.token = "tok"

\* C7: a download that returns a status other than 200 leaves the local
\* filesystem as it was; the local files change only by a download that
\* returned 200, which puts the whole remote content in place; so every local
\* file holds either what it held before the script ran or the whole content
\* of its remote file.
C7_WriteOnlyAfterSuccess ==
    /\ [][(pc = "mirroring" /\ Top.items # <<>>
            /\ Head(Top.items).facet = "file"
            /\ status[Head(Top.items).id] # 200)
          => (files' = files /\ dirs' = dirs)]_vars
    /\ [][files' # files
          => (/\ pc = "mirroring" /\ Top.items # <<>>
              /\ Head(Top.items).facet = "file"
              /\ status[Head(Top.items).id] = 200
              /\ files' = WriteFile(files, PathOf(Head(Top.items).id),
                                    RemoteContent(Head(Top.items).id)))]_vars
    /\ [](\A i \in Files :
            PathOf(i) \in DOMAIN files =>
                \/ files[PathOf(i)] = RemoteContent(i)
                \/ pre = "stale" /\ files[PathOf(i)] = StaleContent)

C7_Witness ==
    /\ pc = "mirroring"
    /\ \E i \in Files :
        /\ i \in attempted /\ status[i] = 404 /\ (10 + i) \in failed
        /\ PathOf(i) \in DOMAIN files
        /\ files[PathOf(i)] = StaleContent

\* C8: the local directory of a subfolder exists before the children of the
\* subfolder are requested and while the call for it runs, every running call
\* works in the directory that corresponds to its folder, every file written
\* lies in an existing directory, and no write fails for want of a subfolder's
\* directory.
C8_DirBeforeDescent ==
    /\ \A F \in fetched \ {folder_id} : PathOf(F) \in dirs
    /\ \A k \in 1..Len(stack) :
        /\ stack[k].path = PathOf(stack[k].folder)
        /\ k >= 2 => stack[k].path \in dirs
    /\ \A p \in written : Dirname(p) \in dirs
    /\ exc.type = "FileNotFoundError" => exc.path = local_save_path

C8_Witness ==
    /\ pc = "mirroring"
    /\ pre = "absent"
    /\ Len(stack) = 3
    /\ \E p \in written : Len(p) = 4

\* C9 as stated: once the children listing of a subfolder has failed during
\* the mirror, the mirror is not aborted: it goes on and completes.
C9_Stated ==
    (run >= 1 /\ \E F \in fetched \ {folder_id} :
                    \/ F \in noValue
                    \/ exc = [type |-> "JSONDecodeError", path |-> PathOf(F)])
        => pc \in {"mirroring", "done"}

\* C10 as stated: when the mirror has ended, every file directly below
\* folder_id whose download returned 200 is at local_save_path/<name> with
\* the remote content.
C10_Stated ==
    (run >= 1 /\ pc \in {"done", "crashed"}) =>
        \A i \in Files :
            (tree[i].parent = folder_id /\ i \in attempted /\ status[i] = 200)
                => /\ PathOf(i) \in DOMAIN files
                   /\ files[PathOf(i)] = RemoteContent(i)

====
